---- MODULE Spec2Model ----
(***************************************************************************)
(* uv-guard: the project manifest (pyproject.toml) manager.                *)
(*                                                                         *)
(* The model follows src/uv_guard/project.py: a ProjectManager is built on *)
(* a path, entered (the manifest is parsed into project_doc), used         *)
(* (add_guardrail, remove_guardrail, direct edits of project_doc) and left *)
(* (__exit__ writes project_doc back unless an exception is pending or the *)
(* manager is read-only).                                                  *)
(*                                                                         *)
(* Strings are sequences of characters, so that the hub URI parser really  *)
(* splits a URI into its identifier and its version specifier.  An absent  *)
(* value (Python None, a missing TOML key) is the empty sequence <<>>, a   *)
(* present value v is the one-element sequence <<v>>.                      *)
(***************************************************************************)
EXTENDS Integers, Sequences, FiniteSets, TLC

\* Longest guardrails array found in a manifest before the first session.
MaxInitLen == 2

None == <<>>
Some(v) == <<v>>
IsSome(o) == o # <<>>
Get(o) == o[1]

----------------------------------------------------------------------------
\* Hub URIs (src/uv_guard/package.py)

HubScheme == "hub://"

\* Characters the hub library accepts in a validator identifier; any other
\* character starts the version specifier.
IdChars == {"a", "b", "1", "2"}

\* "hub://a", "hub://a:1", "hub://a:2", "hub://b", "hub://b:1"
Uris ==
  { <<HubScheme, "a">>,
    <<HubScheme, "a", ":", "1">>,
    <<HubScheme, "a", ":", "2">>,
    <<HubScheme, "b">>,
    <<HubScheme, "b", ":", "1">> }

is_guardrails_hub_uri(package) ==
  Len(package) > 0 /\ Head(package) = HubScheme

RECURSIVE IdPrefixLen(_)
IdPrefixLen(s) ==
  IF s = <<>> \/ Head(s) \notin IdChars THEN 0 ELSE 1 + IdPrefixLen(Tail(s))

\* (validator id, version); the version is None when nothing follows the id.
get_guardrail_id_and_version(hub_uri) ==
  LET body == Tail(hub_uri)
      n == IdPrefixLen(body)
  IN  IF n = 0
        THEN [id |-> body, version |-> None]
        ELSE [id |-> SubSeq(body, 1, n),
              version |-> SubSeq(body, n + 1, Len(body))]

IdOf(uri) == get_guardrail_id_and_version(uri).id
VersionOf(uri) == get_guardrail_id_and_version(uri).version

----------------------------------------------------------------------------
\* Documents and files

\* The [project] table: name, guardrails array (absent or a list of URIs),
\* description (absent or set).
Table(name, guardrails, description) ==
  [name |-> name, guardrails |-> guardrails, description |-> description]

\* A TOML document: the [project] table, absent or present, and the member
\* patterns of [tool.uv.workspace] (none when the key is absent).
WorkspaceDoc(project, members) == [project |-> project, members |-> members]

\* A TOML document that declares no workspace.
Doc(project) == WorkspaceDoc(project, <<>>)

\* A guardrails key that holds a TOML integer: a value that is no array.
NotAnArray == << <<>>, "integer" >>

\* isinstance(guardrails, (list, tomlkit.items.Array)), on a present value.
IsArray(guardrails) == Len(guardrails) = 1

EmptyDoc == Doc(None)

\* A file: missing, or text that is well-formed TOML for doc, or text that
\* does not parse.
MissingFile == [exists |-> FALSE, wellFormed |-> FALSE, doc |-> EmptyDoc]
GarbageFile == [exists |-> TRUE, wellFormed |-> FALSE, doc |-> EmptyDoc]

\* tomlkit.dump: the text of a document.
Dump(doc) == [exists |-> TRUE, wellFormed |-> TRUE, doc |-> doc]

\* tomlkit.load succeeds on well-formed text only.
CanLoad(file) == file.exists /\ file.wellFormed
Load(file) == file.doc

RECURSIVE SeqsUpTo(_, _)
SeqsUpTo(S, n) ==
  IF n = 0 THEN {<<>>}
  ELSE LET shorter == SeqsUpTo(S, n - 1)
       IN  shorter \cup {Append(s, x) : s \in {t \in shorter : Len(t) = n - 1}, x \in S}

RootName == <<"r", "o", "o", "t">>
NewDescription == <<"N", "e", "w">>

\* Manifests found on disk before the tool runs.
InitDocs ==
  {EmptyDoc}
  \cup {Doc(Some(Table(Some(RootName), None, None)))}
  \cup {Doc(Some(Table(Some(RootName), Some(l), None))) : l \in SeqsUpTo(Uris, MaxInitLen)}

InitFiles == {MissingFile, GarbageFile} \cup {Dump(d) : d \in InitDocs}

\* Directories, as the names from the top of the workspace down; a manifest
\* is the pyproject.toml of its directory.
RootPath == <<>>
PackagesDir == <<"p">>
PkgA == <<"p", "a">>
PkgB == <<"p", "b">>
PkgC == <<"p", "a", "c">>
Dirs == {RootPath, PackagesDir, PkgA, PkgB, PkgC}

\* The default path, "pyproject.toml" of the working directory.
Paths == {RootPath}
Managers == {"m1", "m2"}

VARIABLES
  fs,        \* directory -> its pyproject.toml
  mgr,       \* manager -> ProjectManager object
  atEntry,   \* manager -> the file as __enter__ read it
  last,      \* the last call: what was called, its result, project_doc before it
  prev,      \* the call before the last one, when the last one repeats it
  cli        \* the uv-guard command that runs, or the last one that ran

vars == <<fs, mgr, atEntry, last, prev, cli>>

----------------------------------------------------------------------------
\* ProjectManager (src/uv_guard/project.py)

NoError == "none"

\* Variant: a document without a project table is reported the way a
\* document that was never loaded is.
ProjectTableError_one_kind(project_doc) ==
  IF project_doc = None \/ Get(project_doc).project = None THEN "ValueError"
  ELSE NoError

\* Variant: a document that was never loaded is reported the way a missing
\* project table is.
ProjectTableError_unloaded_as_missing(project_doc) ==
  IF project_doc = None \/ Get(project_doc).project = None THEN "UvGuardException"
  ELSE NoError

\* ProjectManager._project_table: what it raises on project_doc.
ProjectTableError(project_doc) ==
  IF project_doc = None THEN "ValueError"
  ELSE IF Get(project_doc).project = None THEN "UvGuardException"
  ELSE NoError

\* ProjectManager.local_guardrails on a document that has a project table.
local_guardrails(doc) ==
  LET guardrails == Get(doc.project).guardrails
  IN  IF guardrails = None THEN <<>>
      ELSE IF IsArray(guardrails) THEN Get(guardrails)
      ELSE <<>>

\* Variant: the new array is returned but never stored in the project table.
StoreGuardrailsArray_detached(doc) == doc

\* ProjectManager._mutable_guardrails_array: the document once the array has
\* been fetched; an absent key is set to a new empty array.
StoreGuardrailsArray(doc) ==
  IF Get(doc.project).guardrails = None
    THEN [doc EXCEPT !.project = Some([Get(doc.project) EXCEPT !.guardrails = Some(<<>>)])]
    ELSE doc

\* The document once the array that _mutable_guardrails_array returned has
\* been changed in place to guardrails: the change shows in the document when
\* the array is the one the project table holds.
WithGuardrails(doc, guardrails) ==
  IF Get(doc.project).guardrails = None
    THEN doc
    ELSE [doc EXCEPT !.project = Some([Get(doc.project) EXCEPT !.guardrails = Some(guardrails)])]

\* The document with its description set.
WithDescription(doc, description) ==
  [doc EXCEPT !.project = Some([Get(doc.project) EXCEPT !.description = Some(description)])]

\* The loops of add_guardrail and remove_guardrail: the first index, from i
\* on, whose entry has the identifier; 0 when the loop ends without a match.
RECURSIVE FirstMatch(_, _, _)
FirstMatch(guardrails, guardrail_id, i) ==
  IF i > Len(guardrails) THEN 0
  ELSE IF IdOf(guardrails[i]) = guardrail_id THEN i
  ELSE FirstMatch(guardrails, guardrail_id, i + 1)

\* Variants: the version test of add_guardrail is dropped, or inverted for a
\* pinned URI.
Overwrites_always(guardrail_version) == TRUE
Overwrites_never(guardrail_version) == FALSE

\* Whether add_guardrail overwrites the matching entry.
Overwrites(guardrail_version) == guardrail_version # None

\* Variant: an entry matches only when it is the very same URI.
add_guardrail_by_uri(guardrails, hub_uri) ==
  IF \E i \in 1..Len(guardrails) : guardrails[i] = hub_uri
    THEN [list |-> guardrails, ret |-> hub_uri]
    ELSE [list |-> Append(guardrails, hub_uri), ret |-> hub_uri]

\* Variant: the loop does not return on a match and falls through to append.
add_guardrail_no_return(guardrails, hub_uri) ==
  LET parsed == get_guardrail_id_and_version(hub_uri)
      i == FirstMatch(guardrails, parsed.id, 1)
      scanned == IF i # 0 /\ parsed.version # None
                   THEN [guardrails EXCEPT ![i] = hub_uri]
                   ELSE guardrails
  IN  [list |-> Append(scanned, hub_uri), ret |-> hub_uri]

\* add_guardrail on the array: the array afterwards and the value returned.
add_guardrail(guardrails, hub_uri) ==
  LET parsed == get_guardrail_id_and_version(hub_uri)
      i == FirstMatch(guardrails, parsed.id, 1)
  IN  IF i = 0
        THEN [list |-> Append(guardrails, hub_uri), ret |-> hub_uri]
      ELSE IF Overwrites(parsed.version)
        THEN [list |-> [guardrails EXCEPT ![i] = hub_uri], ret |-> hub_uri]
      ELSE [list |-> guardrails, ret |-> guardrails[i]]

\* list.pop(i)
Pop(guardrails, i) ==
  SubSeq(guardrails, 1, i - 1) \o SubSeq(guardrails, i + 1, Len(guardrails))

\* Variant: an entry matches only when it is the very same URI.
remove_guardrail_by_uri(guardrails, hub_uri) ==
  IF \E i \in 1..Len(guardrails) : guardrails[i] = hub_uri
    THEN Pop(guardrails, CHOOSE i \in 1..Len(guardrails) :
                           guardrails[i] = hub_uri
                           /\ \A j \in 1..(i - 1) : guardrails[j] # hub_uri)
    ELSE guardrails

\* Variant: without a match the last entry is popped.
remove_guardrail_pop_last(guardrails, hub_uri) ==
  LET i == FirstMatch(guardrails, IdOf(hub_uri), 1)
  IN  IF i = 0 THEN Pop(guardrails, Len(guardrails)) ELSE Pop(guardrails, i)

\* remove_guardrail on the array: the array afterwards.
remove_guardrail(guardrails, hub_uri) ==
  LET i == FirstMatch(guardrails, IdOf(hub_uri), 1)
  IN  IF i = 0 THEN guardrails ELSE Pop(guardrails, i)

\* Variants: the read-only test inverted, the read-only test missing, the
\* pending-exception test missing.
WritesBack_inverted(exc, read_only) == ~exc /\ read_only
WritesBack_ignores_read_only(exc, read_only) == ~exc
WritesBack_ignores_exc(exc, read_only) == ~read_only

\* Variant: the constructor parses the file as well.
InitError_parsing(file) ==
  IF file.exists /\ file.wellFormed THEN NoError ELSE "UvGuardException"

\* ProjectManager.__init__: what it raises on the file at its path; it tests
\* only that the path exists.
InitError(file) == IF ~file.exists THEN "UvGuardException" ELSE NoError

\* Variant: a file that does not parse is taken as an empty document.
EnterError_silent(file) == NoError

\* ProjectManager.__enter__: what it raises on the file at its path; any
\* failure to open or parse is raised as UvGuardException.
EnterError(file) == IF CanLoad(file) THEN NoError ELSE "UvGuardException"

\* __exit__ writes the document back unless an exception is pending or the
\* manager is read-only.
WritesBack(exc, read_only) == ~(exc \/ read_only)

----------------------------------------------------------------------------
\* State

\* The filter arguments of ProjectManager and their defaults.
Filters(include_all, include_packages, exclude_packages, include_project) ==
  [include_all |-> include_all, include_packages |-> include_packages,
   exclude_packages |-> exclude_packages, include_project |-> include_project]

DefaultFilters == Filters(FALSE, {}, {}, TRUE)

\* A ProjectManager object.
Manager(st, path, read_only, project_doc, filters, is_root) ==
  [st |-> st, path |-> path, read_only |-> read_only, project_doc |-> project_doc,
   include_all |-> filters.include_all,
   include_packages |-> filters.include_packages,
   exclude_packages |-> filters.exclude_packages,
   include_project |-> filters.include_project,
   is_root |-> is_root]

NoManager == Manager("none", RootPath, FALSE, None, DefaultFilters, TRUE)

----------------------------------------------------------------------------
\* Filters and aggregation over the workspace

\* How deep the interpreter lets the aggregation recurse (scaled down).
RecursionLimit == 3

FiltersOf(self) ==
  Filters(self.include_all, self.include_packages, self.exclude_packages,
          self.include_project)

\* ProjectManager.project_name, on a document that has a project table.
project_name(self) == Get(Get(self.project_doc).project).name

\* The truth value of a name: an absent or empty name is false.
Truthy(name) == name # None /\ Get(name) # <<>>

\* Variant: the root is settled by include_project before the exclusions
\* are looked at.
should_include_self_root_first(self) ==
  LET name == project_name(self)
  IN  IF self.is_root THEN self.include_project
      ELSE IF Truthy(name) /\ Get(name) \in self.exclude_packages THEN FALSE
      ELSE IF self.include_all THEN TRUE
      ELSE Truthy(name) /\ Get(name) \in self.include_packages

\* Variant: a member is settled by include_all alone.
should_include_self_ignores_packages(self) ==
  LET name == project_name(self)
  IN  IF Truthy(name) /\ Get(name) \in self.exclude_packages THEN FALSE
      ELSE IF self.is_root THEN self.include_project
      ELSE self.include_all

\* Variant: a member that is not excluded is always included.
should_include_self_members_always(self) ==
  LET name == project_name(self)
  IN  IF Truthy(name) /\ Get(name) \in self.exclude_packages THEN FALSE
      ELSE IF self.is_root THEN self.include_project
      ELSE TRUE

\* Variant: a root that is not excluded is always included.
should_include_self_root_always(self) ==
  LET name == project_name(self)
  IN  IF Truthy(name) /\ Get(name) \in self.exclude_packages THEN FALSE
      ELSE IF self.is_root THEN TRUE
      ELSE IF self.include_all THEN TRUE
      ELSE Truthy(name) /\ Get(name) \in self.include_packages

\* ProjectManager.should_include_self, on a document that has a project table.
should_include_self(self) ==
  LET name == project_name(self)
  IN  IF Truthy(name) /\ Get(name) \in self.exclude_packages THEN FALSE
      ELSE IF self.is_root THEN self.include_project
      ELSE IF self.include_all THEN TRUE
      ELSE Truthy(name) /\ Get(name) \in self.include_packages

Range(list) == {list[i] : i \in 1..Len(list)}

\* The directories right below dir.
Children(dir) ==
  {d \in Dirs : Len(d) = Len(dir) + 1 /\ SubSeq(d, 1, Len(dir)) = dir}

\* One component of a glob pattern, applied to a set of directories: "*" is
\* every entry below, "." the directory itself, ".." the one above, any other
\* component the entry of that name.  An entry that is no directory holds no
\* pyproject.toml, so that only directories are kept.
Expand(dirs, part) ==
  IF part = "*" THEN UNION {Children(d) : d \in dirs}
  ELSE IF part = "." THEN dirs
  ELSE IF part = ".." THEN {SubSeq(d, 1, Len(d) - 1) : d \in {e \in dirs : e # <<>>}}
  ELSE {Append(d, part) : d \in dirs} \cap Dirs

\* glob.glob(root_dir / pattern): the pattern is a sequence of components.
RECURSIVE Glob(_, _)
Glob(dirs, pattern) ==
  IF pattern = <<>> THEN dirs
  ELSE Glob(Expand(dirs, Head(pattern)), Tail(pattern))

\* The outcome of an aggregation: the errors it can end with (none when it
\* returns), the URIs collected, the member managers opened on the way.
Outcome(errs, set, opened) == [errs |-> errs, set |-> set, opened |-> opened]

\* A member manager, and the directory of the node that opened it.
Child(by, manager) == [by |-> by, manager |-> manager]

RECURSIVE guardrails(_, _, _), FromMembers(_, _, _, _), MemberGuardrails(_, _, _, _)

\* Variant: the member manager takes the mode of self, and below the first
\* level the default filters.
MemberGuardrails_as_parent(files, self, dir, depth) ==
  LET filters == IF self.is_root THEN FiltersOf(self) ELSE DefaultFilters
      member_project ==
        Manager("entered", dir, self.read_only, Some(Load(files[dir])), filters, FALSE)
  IN  IF EnterError(files[dir]) # NoError
        THEN Outcome({EnterError(files[dir])}, {},
                     {Child(self.path,
                            Manager("failed", dir, self.read_only, None, filters, FALSE))})
        ELSE LET found == guardrails(files, member_project, depth + 1)
             IN  Outcome(found.errs, found.set,
                         found.opened \cup {Child(self.path, member_project)})

\* The with block of ProjectManager.guardrails: a read-only manager on the
\* member manifest, with the filters of self and _is_root=False, is built,
\* entered and asked for its guardrails.
MemberGuardrails(files, self, dir, depth) ==
  LET member_project ==
        Manager("entered", dir, TRUE, Some(Load(files[dir])), FiltersOf(self), FALSE)
  IN  IF EnterError(files[dir]) # NoError
        THEN Outcome({EnterError(files[dir])}, {},
                     {Child(self.path,
                            Manager("failed", dir, TRUE, None, FiltersOf(self), FALSE))})
        ELSE LET found == guardrails(files, member_project, depth + 1)
             IN  Outcome(found.errs, found.set,
                         found.opened \cup {Child(self.path, member_project)})

\* Variant: a match that is the manifest of self is opened like any other.
FromMembers_no_self_guard(files, self, patterns, depth) ==
  IF patterns = <<>> THEN Outcome({}, {}, {})
  ELSE LET matches == {d \in Glob({self.path}, Head(patterns)) : files[d].exists}
           results == {MemberGuardrails(files, self, d, depth) : d \in matches}
           errs == UNION {r.errs : r \in results}
           set == UNION {r.set : r \in results}
           opened == UNION {r.opened : r \in results}
       IN  IF errs # {} THEN Outcome(errs, set, opened)
           ELSE LET rest == FromMembers(files, self, Tail(patterns), depth)
                IN  Outcome(rest.errs, set \cup rest.set, opened \cup rest.opened)

\* Variant: a match is skipped when it is the manifest at the top of the
\* workspace, whatever node self is.
FromMembers_guards_top_only(files, self, patterns, depth) ==
  IF patterns = <<>> THEN Outcome({}, {}, {})
  ELSE LET matches == {d \in Glob({self.path}, Head(patterns)) :
                         d # RootPath /\ files[d].exists}
           results == {MemberGuardrails(files, self, d, depth) : d \in matches}
           errs == UNION {r.errs : r \in results}
           set == UNION {r.set : r \in results}
           opened == UNION {r.opened : r \in results}
       IN  IF errs # {} THEN Outcome(errs, set, opened)
           ELSE LET rest == FromMembers(files, self, Tail(patterns), depth)
                IN  Outcome(rest.errs, set \cup rest.set, opened \cup rest.opened)

\* The loop of ProjectManager.guardrails over the member patterns, in the
\* order of the list; the matches of one pattern come in no fixed order.  A
\* match is skipped when it is the manifest of self or when it holds no
\* pyproject.toml.
FromMembers(files, self, patterns, depth) ==
  IF patterns = <<>> THEN Outcome({}, {}, {})
  ELSE LET matches == {d \in Glob({self.path}, Head(patterns)) :
                         d # self.path /\ files[d].exists}
           results == {MemberGuardrails(files, self, d, depth) : d \in matches}
           errs == UNION {r.errs : r \in results}
           set == UNION {r.set : r \in results}
           opened == UNION {r.opened : r \in results}
       IN  IF errs # {} THEN Outcome(errs, set, opened)
           ELSE LET rest == FromMembers(files, self, Tail(patterns), depth)
                IN  Outcome(rest.errs, set \cup rest.set, opened \cup rest.opened)

\* Variant: the members of a node that does not pass the filters are not
\* looked at.
guardrails_prunes(files, self, depth) ==
  IF depth > RecursionLimit THEN Outcome({"RecursionError"}, {}, {})
  ELSE IF ProjectTableError(self.project_doc) # NoError
    THEN Outcome({ProjectTableError(self.project_doc)}, {}, {})
  ELSE IF ~should_include_self(self) THEN Outcome({}, {}, {})
  ELSE LET doc == Get(self.project_doc)
           rest == FromMembers(files, self, doc.members, depth)
       IN  Outcome(rest.errs, Range(local_guardrails(doc)) \cup rest.set, rest.opened)

\* One URI for each identifier among a set of URIs.
OnePerIdentifier(set) ==
  {CHOOSE u \in set : IdOf(u) = id : id \in {IdOf(u) : u \in set}}

\* Variant: what is collected holds one URI for each identifier.
guardrails_by_identifier(files, self, depth) ==
  IF depth > RecursionLimit THEN Outcome({"RecursionError"}, {}, {})
  ELSE IF ProjectTableError(self.project_doc) # NoError
    THEN Outcome({ProjectTableError(self.project_doc)}, {}, {})
  ELSE LET doc == Get(self.project_doc)
           own == IF should_include_self(self) THEN Range(local_guardrails(doc)) ELSE {}
           rest == FromMembers(files, self, doc.members, depth)
       IN  Outcome(rest.errs, OnePerIdentifier(own \cup rest.set), rest.opened)

\* Variant: the node asked reads its own manifest from the file again instead
\* of its document in memory.
guardrails_from_file(files, self, depth) ==
  IF depth > RecursionLimit THEN Outcome({"RecursionError"}, {}, {})
  ELSE IF ProjectTableError(self.project_doc) # NoError
    THEN Outcome({ProjectTableError(self.project_doc)}, {}, {})
  ELSE LET doc == IF CanLoad(files[self.path]) /\ Load(files[self.path]).project # None
                    THEN Load(files[self.path])
                    ELSE Get(self.project_doc)
           own == IF should_include_self(self) THEN Range(local_guardrails(doc)) ELSE {}
           rest == FromMembers(files, self, doc.members, depth)
       IN  Outcome(rest.errs, own \cup rest.set, rest.opened)

\* ProjectManager.guardrails: the local guardrails when self passes the
\* filters, then those of every member, collected in a set.
guardrails(files, self, depth) ==
  IF depth > RecursionLimit THEN Outcome({"RecursionError"}, {}, {})
  ELSE IF ProjectTableError(self.project_doc) # NoError
    THEN Outcome({ProjectTableError(self.project_doc)}, {}, {})
  ELSE LET doc == Get(self.project_doc)
           own == IF should_include_self(self) THEN Range(local_guardrails(doc)) ELSE {}
           rest == FromMembers(files, self, doc.members, depth)
       IN  Outcome(rest.errs, own \cup rest.set, rest.opened)

\* len(guardrails) in add_guardrail and remove_guardrail: the project table
\* is looked up first, and a guardrails value that is no array has no length.
MutationError(project_doc) ==
  IF ProjectTableError(project_doc) # NoError THEN ProjectTableError(project_doc)
  ELSE LET value == Get(Get(project_doc).project).guardrails
       IN  IF value # None /\ ~IsArray(value) THEN "TypeError" ELSE NoError

\* What a call that reads nothing yields.
NoValue == {}

NoCall ==
  [op |-> "none", m |-> "m1", arg |-> <<>>, ret |-> <<>>, err |-> NoError,
   exc |-> FALSE, doc |-> None, got |-> NoValue]

\* The number of guardrails a manager's document lists (0 when it has none).
Count(project_doc) ==
  IF ProjectTableError(project_doc) = NoError
    THEN Len(local_guardrails(Get(project_doc)))
    ELSE 0

\* What is kept of the call before the last one: the call, its result and
\* the number of guardrails it found.
Brief(call) ==
  [op |-> call.op, m |-> call.m, arg |-> call.arg, ret |-> call.ret, err |-> call.err,
   n |-> Count(call.doc)]

\* Records the call that the step makes.  The call before it is kept when the
\* new call repeats it (same method, same manager, same argument), which is
\* all that the properties about repeated calls read.
Called(op, m, arg, ret, err, exc) ==
  /\ last' = [op |-> op, m |-> m, arg |-> arg, ret |-> ret, err |-> err, exc |-> exc,
              doc |-> mgr[m].project_doc, got |-> NoValue]
  /\ prev' = IF last.op = op /\ last.m = m /\ last.arg = arg
               THEN Brief(last)
               ELSE Brief(NoCall)

\* Records a call that reads: what it returned, or the error it raised.
Returned(op, m, got, err) ==
  /\ last' = [op |-> op, m |-> m, arg |-> <<>>, ret |-> <<>>, err |-> err,
              exc |-> FALSE, doc |-> mgr[m].project_doc, got |-> got]
  /\ prev' = Brief(NoCall)

\* The options of uv-guard sync; add and remove have none of them.
Options(all_packages, package, no_install_project, no_install_workspace, no_install_package) ==
  [all_packages |-> all_packages, package |-> package,
   no_install_project |-> no_install_project,
   no_install_workspace |-> no_install_workspace,
   no_install_package |-> no_install_package]

\* typer's defaults: the flags off, the lists None.
DefaultOptions == Options(FALSE, None, FALSE, FALSE, None)

\* A command: the hub token configured, if any (settings.rc.token), its
\* arguments, the local variables packages, guardrails and project of its
\* function, where it stands (pc counts the statements of the function, i
\* the turns of its loop over the guardrails), the calls it has made, how it
\* ended and the exception that ended it, if any.
Command(cmd, argv, options, guardrails_list, token, status) ==
  [cmd |-> cmd, argv |-> argv, options |-> options, packages |-> argv,
   guardrails |-> guardrails_list, project |-> NoManager, pc |-> 1, i |-> 1,
   log |-> <<>>, token |-> token, status |-> status, exc |-> NoError]

\* The hub token of the tests.
Token == <<"valid-token-123">>

\* No command was run yet.
NoCommand == Command("none", <<>>, DefaultOptions, <<>>, Some(Token), "idle")

Init ==
  /\ \E file \in InitFiles :
       fs = [d \in Dirs |-> IF d \in Paths THEN file ELSE MissingFile]
  /\ mgr = [m \in Managers |-> NoManager]
  /\ atEntry = [m \in Managers |-> MissingFile]
  /\ last = NoCall
  /\ prev = Brief(NoCall)
  /\ cli = NoCommand

\* What a raise does to the manager: inside the with block the exception is
\* pending until __exit__ has run; outside it the object is left as it was.
AfterRaise(st) == IF st = "entered" THEN "raising" ELSE st

\* ProjectManager(path, read_only, include_all, ..., _is_root): fails when
\* the path does not exist.  Each manager object serves one session; a later
\* session on the same path is a behaviour that starts from the file the
\* earlier one left.
ConstructWith(m, path, read_only, filters, is_root) ==
  /\ mgr[m].st = "none"
  /\ IF InitError(fs[path]) # NoError
       THEN /\ mgr' = [mgr EXCEPT ![m] = [NoManager EXCEPT !.path = path]]
            /\ Called("init", m, <<>>, <<>>, InitError(fs[path]), FALSE)
       ELSE /\ mgr' = [mgr EXCEPT ![m] =
                         Manager("constructed", path, read_only, None, filters, is_root)]
            /\ Called("init", m, <<>>, <<>>, NoError, FALSE)
  /\ UNCHANGED <<fs, atEntry, cli>>

\* ProjectManager(path, read_only), every filter at its default.
Construct(m, path, read_only) ==
  ConstructWith(m, path, read_only, DefaultFilters, TRUE)

\* __enter__: parses the file into project_doc.
Enter(m) ==
  /\ mgr[m].st = "constructed"
  /\ LET file == fs[mgr[m].path]
     IN  IF EnterError(file) = NoError
           THEN /\ mgr' = [mgr EXCEPT ![m].st = "entered",
                                      ![m].project_doc = Some(Load(file))]
                /\ atEntry' = [atEntry EXCEPT ![m] = file]
                /\ Called("enter", m, <<>>, <<>>, NoError, FALSE)
           ELSE /\ mgr' = [mgr EXCEPT ![m].st = "failed"]
                /\ UNCHANGED atEntry
                /\ Called("enter", m, <<>>, <<>>, EnterError(file), FALSE)
  /\ UNCHANGED <<fs, cli>>

\* add_guardrail(hub_uri)
AddGuardrail(m, hub_uri) ==
  /\ mgr[m].st \in {"constructed", "entered"}
  /\ LET err == MutationError(mgr[m].project_doc)
     IN  IF err # NoError
           THEN /\ mgr' = [mgr EXCEPT ![m].st = AfterRaise(@)]
                /\ Called("add", m, hub_uri, <<>>, err, FALSE)
           ELSE LET doc == StoreGuardrailsArray(Get(mgr[m].project_doc))
                    res == add_guardrail(local_guardrails(doc), hub_uri)
                IN  /\ mgr' = [mgr EXCEPT ![m].project_doc =
                                  Some(WithGuardrails(doc, res.list))]
                    /\ Called("add", m, hub_uri, res.ret, NoError, FALSE)
  /\ UNCHANGED <<fs, atEntry, cli>>

\* remove_guardrail(hub_uri)
RemoveGuardrail(m, hub_uri) ==
  /\ mgr[m].st \in {"constructed", "entered"}
  /\ LET err == MutationError(mgr[m].project_doc)
     IN  IF err # NoError
           THEN /\ mgr' = [mgr EXCEPT ![m].st = AfterRaise(@)]
                /\ Called("remove", m, hub_uri, <<>>, err, FALSE)
           ELSE LET doc == StoreGuardrailsArray(Get(mgr[m].project_doc))
                    list == remove_guardrail(local_guardrails(doc), hub_uri)
                IN  /\ mgr' = [mgr EXCEPT ![m].project_doc =
                                  Some(WithGuardrails(doc, list))]
                    /\ Called("remove", m, hub_uri, <<>>, NoError, FALSE)
  /\ UNCHANGED <<fs, atEntry, cli>>

\* project_doc["project"]["description"] = ... inside the with block.
EditDescription(m) ==
  /\ mgr[m].st = "entered"
  /\ ProjectTableError(mgr[m].project_doc) = NoError
  /\ mgr' = [mgr EXCEPT ![m].project_doc =
               Some(WithDescription(Get(mgr[m].project_doc), NewDescription))]
  /\ Called("edit", m, <<>>, <<>>, NoError, FALSE)
  /\ UNCHANGED <<fs, atEntry, cli>>

\* The body of the with block raises.
RaiseInBody(m) ==
  /\ mgr[m].st = "entered"
  /\ mgr' = [mgr EXCEPT ![m].st = "raising"]
  /\ Called("body", m, <<>>, <<>>, "Exception", FALSE)
  /\ UNCHANGED <<fs, atEntry, cli>>

\* __exit__(exc_type, ...)
Exit(m) ==
  /\ mgr[m].st \in {"entered", "raising"}
  /\ LET exc == mgr[m].st = "raising"
     IN  /\ IF WritesBack(exc, mgr[m].read_only)
              THEN fs' = [fs EXCEPT ![mgr[m].path] = Dump(Get(mgr[m].project_doc))]
              ELSE UNCHANGED fs
         /\ Called("exit", m, <<>>, <<>>, NoError, exc)
  /\ mgr' = [mgr EXCEPT ![m].st = "exited"]
  /\ UNCHANGED <<atEntry, cli>>

\* A read of one of the properties: it returns a value or raises, and
\* changes neither the document nor the file.
ReadProperty(op, m, got, err) ==
  /\ mgr' = [mgr EXCEPT ![m].st = IF err # NoError THEN AfterRaise(@) ELSE @]
  /\ Returned(op, m, IF err # NoError THEN NoValue ELSE got, err)
  /\ UNCHANGED <<fs, atEntry, cli>>

\* project_name
ReadProjectName(m) ==
  /\ mgr[m].st \in {"constructed", "entered"}
  /\ LET err == ProjectTableError(mgr[m].project_doc)
     IN  ReadProperty("project_name", m,
                      IF err = NoError THEN project_name(mgr[m]) ELSE NoValue, err)

\* should_include_self
ReadShouldIncludeSelf(m) ==
  /\ mgr[m].st \in {"constructed", "entered"}
  /\ LET err == ProjectTableError(mgr[m].project_doc)
     IN  ReadProperty("should_include_self", m,
                      IF err = NoError THEN should_include_self(mgr[m]) ELSE NoValue, err)

\* local_guardrails
ReadLocalGuardrails(m) ==
  /\ mgr[m].st \in {"constructed", "entered"}
  /\ LET err == ProjectTableError(mgr[m].project_doc)
     IN  ReadProperty("local_guardrails", m,
                      IF err = NoError THEN local_guardrails(Get(mgr[m].project_doc))
                      ELSE NoValue, err)

\* guardrails: the members are read from the files as they are now.
ReadGuardrails(m) ==
  /\ mgr[m].st \in {"constructed", "entered"}
  /\ LET found == guardrails(fs, mgr[m], 0)
     IN  IF found.errs = {}
           THEN ReadProperty("guardrails", m, found.set, NoError)
           ELSE \E err \in found.errs : ReadProperty("guardrails", m, NoValue, err)

Step(m) ==
  \/ \E path \in Paths, read_only \in BOOLEAN : Construct(m, path, read_only)
  \/ Enter(m)
  \/ \E hub_uri \in Uris : AddGuardrail(m, hub_uri)
  \/ \E hub_uri \in Uris : RemoveGuardrail(m, hub_uri)
  \/ EditDescription(m)
  \/ RaiseInBody(m)
  \/ Exit(m)

\* One manager at a time, session after session.
Next == Step("m1")

Spec == Init /\ [][Next]_vars

----------------------------------------------------------------------------
\* A workspace: the root manifest names the packages below p/ as members,
\* package a names what lies below it.

NameA == <<"a">>
NameB == <<"b">>
NameC == <<"c">>
EmptyName == <<>>

UriA == <<HubScheme, "a">>
UriA1 == <<HubScheme, "a", ":", "1">>
UriB == <<HubScheme, "b">>
UriB1 == <<HubScheme, "b", ":", "1">>

\* members = ["p/*"]
PackagesPattern == <<"p", "*">>

\* The root manifest: members = ["p/*"] with no [project] table, with no
\* guardrails key, with a list, with a value that is no list; and the list
\* again with the root itself among the members.
RootDocs ==
  {WorkspaceDoc(project, <<PackagesPattern>>) :
     project \in {None,
                  Some(Table(Some(RootName), None, None)),
                  Some(Table(Some(RootName), Some(<<UriA>>), None)),
                  Some(Table(Some(RootName), NotAnArray, None))}}
  \cup {WorkspaceDoc(Some(Table(Some(RootName), Some(<<UriA>>), None)),
                     << <<".">>, PackagesPattern >>)}

FilesA ==
  {MissingFile, GarbageFile}
  \cup {Dump(WorkspaceDoc(project, << <<"*">> >>)) :
          project \in {None,
                       Some(Table(Some(NameA), Some(<<UriA1>>), None)),
                       Some(Table(Some(EmptyName), Some(<<UriA1>>), None)),
                       Some(Table(None, Some(<<UriA1>>), None))}}

FilesB == {Dump(Doc(Some(Table(Some(NameB), Some(<<UriB>>), None))))}

FilesC ==
  {MissingFile,
   Dump(Doc(None)),
   Dump(Doc(Some(Table(Some(NameC), Some(<<UriA, UriB1>>), None))))}

\* The filters a command line can set.
FilterChoices ==
  {Filters(include_all, include_packages, exclude_packages, include_project) :
     include_all \in BOOLEAN,
     include_packages \in {{}, {NameA}, {NameC}, {EmptyName}},
     exclude_packages \in {{}, {RootName}, {NameA}, {EmptyName}},
     include_project \in BOOLEAN}

\* The URIs added and removed in the workspace.
WsUris == {UriB}

InitWs ==
  /\ \E root \in RootDocs, a \in FilesA, b \in FilesB, c \in FilesC :
       fs = [d \in Dirs |-> IF d = RootPath THEN Dump(root)
                            ELSE IF d = PkgA THEN a
                            ELSE IF d = PkgB THEN b
                            ELSE IF d = PkgC THEN c
                            ELSE MissingFile]
  /\ mgr = [m \in Managers |-> NoManager]
  /\ atEntry = [m \in Managers |-> MissingFile]
  /\ last = NoCall
  /\ prev = Brief(NoCall)
  /\ cli = NoCommand

\* A manager on the root manifest, built the way the add and remove commands
\* build it or the way the sync command does, or one on package a built the
\* way the aggregation builds it.
StepWs(m) ==
  \/ Construct(m, RootPath, FALSE)
  \/ \E filters \in FilterChoices : ConstructWith(m, RootPath, TRUE, filters, TRUE)
  \/ \E filters \in FilterChoices : ConstructWith(m, PkgA, TRUE, filters, FALSE)
  \/ Enter(m)
  \/ ReadProjectName(m)
  \/ ReadShouldIncludeSelf(m)
  \/ ReadLocalGuardrails(m)
  \/ ReadGuardrails(m)
  \/ \E hub_uri \in WsUris : AddGuardrail(m, hub_uri)
  \/ \E hub_uri \in WsUris : RemoveGuardrail(m, hub_uri)
  \/ Exit(m)

NextWs == StepWs("m1")

SpecWs == InitWs /\ [][NextWs]_vars

----------------------------------------------------------------------------
\* Workspaces whose member patterns match the node itself or a node above it

\* members entries ".", "*", ".." and "../.."
SelfPattern == <<".">>
BelowPattern == <<"*">>
ParentPattern == <<"..">>
GrandparentPattern == <<"..", "..">>

\* The root manifest lists hub://a, once or twice, and names the packages
\* below p/ as members, itself too in one layout.
TreeRootDocs ==
  {WorkspaceDoc(Some(Table(Some(RootName), Some(<<UriA>>), None)), <<PackagesPattern>>),
   WorkspaceDoc(Some(Table(Some(RootName), Some(<<UriA>>), None)),
                <<SelfPattern, PackagesPattern>>),
   WorkspaceDoc(Some(Table(Some(RootName), Some(<<UriA, UriA>>), None)),
                <<PackagesPattern>>)}

\* Package a names what lies below it, itself too in one layout, and in
\* another the root, two directories up.
TreeFilesA ==
  {Dump(WorkspaceDoc(Some(Table(Some(NameA), Some(<<UriA1>>), None)), members)) :
     members \in {<<BelowPattern>>, <<SelfPattern, BelowPattern>>,
                  <<BelowPattern, GrandparentPattern>>}}

\* Package c is missing, or a leaf, or names package a, right above it.
TreeFilesC ==
  {MissingFile}
  \cup {Dump(WorkspaceDoc(Some(Table(Some(NameC), Some(<<UriA, UriB1>>), None)), members)) :
          members \in {<<>>, <<ParentPattern>>}}

TreeFilters ==
  {Filters(include_all, include_packages, {}, include_project) :
     include_all \in BOOLEAN,
     include_packages \in {{}, {NameC}},
     include_project \in BOOLEAN}

\* The URIs added and removed.
TreeUris == {UriA, UriB}

InitTree ==
  /\ \E root \in TreeRootDocs, a \in TreeFilesA, b \in FilesB, c \in TreeFilesC :
       fs = [d \in Dirs |-> IF d = RootPath THEN Dump(root)
                            ELSE IF d = PkgA THEN a
                            ELSE IF d = PkgB THEN b
                            ELSE IF d = PkgC THEN c
                            ELSE MissingFile]
  /\ mgr = [m \in Managers |-> NoManager]
  /\ atEntry = [m \in Managers |-> MissingFile]
  /\ last = NoCall
  /\ prev = Brief(NoCall)
  /\ cli = NoCommand

\* A session on the root manifest: guardrails are added, removed and read.
StepTree(m) ==
  \/ Construct(m, RootPath, FALSE)
  \/ \E filters \in TreeFilters : ConstructWith(m, RootPath, TRUE, filters, TRUE)
  \/ Enter(m)
  \/ ReadGuardrails(m)
  \/ \E hub_uri \in TreeUris : AddGuardrail(m, hub_uri)
  \/ \E hub_uri \in TreeUris : RemoveGuardrail(m, hub_uri)
  \/ Exit(m)

NextTree == StepTree("m1")

SpecTree == InitTree /\ [][NextTree]_vars

----------------------------------------------------------------------------
\* Two sessions on the same manifest

\* The manifest before the first session: without a guardrails key, or
\* listing hub://a.
TwoFiles ==
  {Dump(Doc(Some(Table(Some(RootName), list, None)))) : list \in {None, Some(<<UriA>>)}}

InitTwo ==
  /\ \E file \in TwoFiles :
       fs = [d \in Dirs |-> IF d = RootPath THEN file ELSE MissingFile]
  /\ mgr = [m \in Managers |-> NoManager]
  /\ atEntry = [m \in Managers |-> MissingFile]
  /\ last = NoCall
  /\ prev = Brief(NoCall)
  /\ cli = NoCommand

\* A session that can write: ProjectManager() is built, entered, used and
\* left.
StepTwo(m) ==
  \/ Construct(m, RootPath, FALSE)
  \/ Enter(m)
  \/ \E hub_uri \in TreeUris : AddGuardrail(m, hub_uri)
  \/ \E hub_uri \in TreeUris : RemoveGuardrail(m, hub_uri)
  \/ Exit(m)

\* The steps of the two sessions interleave in every way.
NextTwo == \E m \in Managers : StepTwo(m)

SpecTwo == InitTwo /\ [][NextTwo]_vars

----------------------------------------------------------------------------
\* The commands add, remove and sync (src/uv_guard/cli.py)

\* Most packages on one command line.
MaxArgs == 2

\* A requirement that is no hub URI, and the package uv-guard always adds.
Requests == <<"requests">>
GuardrailsAi == <<"guardrails-ai">>

\* What is given on the command line: "hub://a", "hub://a:1", "hub://b" and
\* "requests".
CliPackages == {UriA, UriA1, UriB, Requests}

Argvs == SeqsUpTo(CliPackages, MaxArgs) \ {<<>>}

\* The option values given to sync.
SyncOptions ==
  {Options(all_packages, package, no_install_project, no_install_workspace,
           no_install_package) :
     all_packages \in BOOLEAN,
     package \in {None, <<NameA>>},
     no_install_project \in BOOLEAN,
     no_install_workspace \in BOOLEAN,
     no_install_package \in {None, <<NameB>>}}

\* An entry of the guardrails array that is no string: a TOML integer.
IntegerEntry == <<"integer">>

\* The root manifest before the first command: missing, unparsable, without
\* a project table, or a workspace root with a guardrails key that is
\* absent, no array, or an array, of URIs or of a URI and an integer.
CliRootFiles ==
  {MissingFile, GarbageFile, Dump(WorkspaceDoc(None, <<PackagesPattern>>))}
  \cup {Dump(WorkspaceDoc(Some(Table(Some(RootName), list, None)), <<PackagesPattern>>)) :
          list \in {None, NotAnArray, Some(<<UriA1>>), Some(<<UriB, UriA>>),
                    Some(<<UriA, UriA>>), Some(<<UriA, IntegerEntry>>)}}

InitCli ==
  /\ \E root \in CliRootFiles :
       fs = [d \in Dirs |->
               IF d = RootPath THEN root
               ELSE IF d = PkgA
                 THEN Dump(WorkspaceDoc(Some(Table(Some(NameA), Some(<<UriA1>>), None)),
                                        <<BelowPattern>>))
               ELSE IF d = PkgB
                 THEN Dump(Doc(Some(Table(Some(NameB), Some(<<UriB>>), None))))
               ELSE IF d = PkgC
                 THEN Dump(Doc(Some(Table(Some(NameC), Some(<<UriA, UriB1>>), None))))
               ELSE MissingFile]
  /\ mgr = [m \in Managers |-> NoManager]
  /\ atEntry = [m \in Managers |-> MissingFile]
  /\ last = NoCall
  /\ prev = Brief(NoCall)
  /\ \E token \in {None, Some(Token)} : cli = [NoCommand EXCEPT !.token = token]

\* ValidatorPackageService.get_normalized_package_name
get_normalized_package_name(validator_id) == <<"grhub-">> \o validator_id

\* resolve_python_package: a Python requirement is returned as it is, a hub
\* URI becomes its package name followed by its version specifier.
resolve_python_package(package) ==
  IF ~is_guardrails_hub_uri(package) THEN package
  ELSE LET parsed == get_guardrail_id_and_version(package)
       IN  IF parsed.version = None
             THEN get_normalized_package_name(parsed.id)
             ELSE get_normalized_package_name(parsed.id) \o parsed.version

\* [resolve_python_package(pkg) for pkg in packages]
python_packages(packages) ==
  [k \in 1..Len(packages) |-> resolve_python_package(packages[k])]

\* [pkg for pkg in packages if is_guardrails_hub_uri(pkg)]
HubUris(packages) == SelectSeq(packages, is_guardrails_hub_uri)

\* A call made by a command: what was called, with what, and whether it
\* returned (ok) or raised.
Event(kind, args, ok) == [kind |-> kind, args |-> args, ok |-> ok]

\* Variants: the manifest is handled first in remove; the hooks run before
\* the package manager in add and in sync.
remove_steps_manifest_first == <<"manifest", "hooks", "uv">>
add_steps_hooks_before_uv == <<"manifest", "hooks", "uv">>
sync_steps_hooks_before_uv == <<"manifest", "hooks", "uv">>

\* The statements of each command after the token check, in program order:
\* the with block on the manifest, the call of uv, the loop over the
\* guardrails that calls the hub hook.
add_steps == <<"manifest", "uv", "hooks">>
remove_steps == <<"hooks", "uv", "manifest">>
sync_steps == <<"manifest", "uv", "hooks">>

Steps(cmd) ==
  IF cmd = "add" THEN add_steps
  ELSE IF cmd = "remove" THEN remove_steps
  ELSE sync_steps

\* The statement the command is at.
At(c) == Steps(c.cmd)[c.pc]

Running(step) == cli.status = "running" /\ At(cli) = step

\* The statement is done: on to the next one, or the command returns.
Advance(c) ==
  IF c.pc = Len(Steps(c.cmd))
    THEN [c EXCEPT !.status = "done"]
    ELSE [c EXCEPT !.pc = @ + 1, !.i = 1]

\* An exception leaves the try block: UvGuardException is caught and turned
\* into typer.Exit(1), typer.Exit(1) goes through and ends the program with
\* code 1, anything else leaves the command as it is.
Raised(c, err) ==
  [c EXCEPT !.status = IF err \in {"UvGuardException", "Exit"} THEN "exit1" ELSE "crashed",
            !.exc = err]

\* Variants: include_project is passed un-negated; --package is dropped.
SyncFilters_project_unnegated(options) ==
  Filters(options.all_packages,
          IF options.package = None THEN {} ELSE Range(options.package),
          IF options.no_install_package = None THEN {}
          ELSE Range(options.no_install_package),
          options.no_install_project)

\* The filters sync passes to ProjectManager; the constructor turns the
\* lists, None included, into sets.
SyncFilters(options) ==
  Filters(options.all_packages,
          IF options.package = None THEN {} ELSE Range(options.package),
          IF options.no_install_package = None THEN {}
          ELSE Range(options.no_install_package),
          ~options.no_install_project)

\* The manager the command builds: ProjectManager() in add and remove,
\* ProjectManager(read_only=True, ...) in sync.
CommandManager(c) ==
  IF c.cmd = "sync"
    THEN Manager("constructed", RootPath, TRUE, None, SyncFilters(c.options), TRUE)
    ELSE Manager("constructed", RootPath, FALSE, None, DefaultFilters, TRUE)

\* for p in values: uv_args.extend([flag, p])
RECURSIVE Flagged(_, _)
Flagged(flag, values) ==
  IF values = <<>> THEN <<>>
  ELSE <<flag, Head(values)>> \o Flagged(flag, Tail(values))

\* uv_args of sync: the options, handed on to uv as they were given.
uv_args(options) ==
  (IF options.all_packages THEN << <<"--all-packages">> >> ELSE <<>>)
  \o (IF options.no_install_project THEN << <<"--no-install-project">> >> ELSE <<>>)
  \o (IF options.no_install_workspace THEN << <<"--no-install-workspace">> >> ELSE <<>>)
  \o (IF options.package # None
        THEN Flagged(<<"--package">>, options.package) ELSE <<>>)
  \o (IF options.no_install_package # None
        THEN Flagged(<<"--no-install-package">>, options.no_install_package) ELSE <<>>)

\* What the body of a with block leaves: the document, the variables
\* packages and guardrails, the calls made on the manager, and the exception
\* that ended the body, if any.
BodyResult(project_doc, packages, guardrails_list, calls, err) ==
  [doc |-> project_doc, packages |-> packages, guardrails |-> guardrails_list,
   calls |-> calls, err |-> err]

\* The loops of add_guardrail and remove_guardrail parse every entry up to
\* the first match: an entry that is no string makes the parser raise (an
\* exception that is no UvGuardException) when the loop gets to it.
ScanError(guardrails_list, hub_uri) ==
  IF \E j \in 1..Len(guardrails_list) :
       /\ guardrails_list[j] = IntegerEntry
       /\ \A k \in 1..(j - 1) : /\ guardrails_list[k] # IntegerEntry
                                 /\ IdOf(guardrails_list[k]) # IdOf(hub_uri)
    THEN "Exception"
    ELSE NoError

\* What a call of add_guardrail or remove_guardrail raises on the document.
CallError(project_doc, hub_uri) ==
  IF MutationError(project_doc) # NoError THEN MutationError(project_doc)
  ELSE ScanError(local_guardrails(StoreGuardrailsArray(Get(project_doc))), hub_uri)

\* add: packages = [project.add_guardrail(pkg) if is_guardrails_hub_uri(pkg)
\* else pkg for pkg in packages]
RECURSIVE AddAll(_, _)
AddAll(project_doc, packages) ==
  IF packages = <<>> THEN BodyResult(project_doc, <<>>, <<>>, <<>>, NoError)
  ELSE LET pkg == Head(packages)
       IN  IF ~is_guardrails_hub_uri(pkg)
             THEN LET rest == AddAll(project_doc, Tail(packages))
                  IN  [rest EXCEPT !.packages = <<pkg>> \o @]
           ELSE IF CallError(project_doc, pkg) # NoError
             THEN BodyResult(project_doc, <<>>, <<>>,
                             <<Event("add_guardrail", <<pkg>>, FALSE)>>,
                             CallError(project_doc, pkg))
           ELSE LET doc == StoreGuardrailsArray(Get(project_doc))
                    res == add_guardrail(local_guardrails(doc), pkg)
                    rest == AddAll(Some(WithGuardrails(doc, res.list)), Tail(packages))
                IN  [rest EXCEPT !.packages = <<res.ret>> \o @,
                                 !.calls = <<Event("add_guardrail", <<pkg>>, TRUE)>> \o @]

\* remove: for pkg in guardrails: project.remove_guardrail(pkg)
RECURSIVE RemoveAll(_, _)
RemoveAll(project_doc, guardrails_list) ==
  IF guardrails_list = <<>> THEN BodyResult(project_doc, <<>>, <<>>, <<>>, NoError)
  ELSE LET pkg == Head(guardrails_list)
       IN  IF CallError(project_doc, pkg) # NoError
             THEN BodyResult(project_doc, <<>>, <<>>,
                             <<Event("remove_guardrail", <<pkg>>, FALSE)>>,
                             CallError(project_doc, pkg))
           ELSE LET doc == StoreGuardrailsArray(Get(project_doc))
                    list == remove_guardrail(local_guardrails(doc), pkg)
                    rest == RemoveAll(Some(WithGuardrails(doc, list)), Tail(guardrails_list))
                IN  [rest EXCEPT !.calls = <<Event("remove_guardrail", <<pkg>>, TRUE)>> \o @]

\* list(collected_guardrails): the entries of the set, in any order.
Lists_of(set) ==
  {list \in [1..Cardinality(set) -> set] :
     \A j, k \in 1..Cardinality(set) : list[j] = list[k] => j = k}

\* The ways the body of the command's with block can go.
Bodies(c, project, files) ==
  IF c.cmd = "add"
    THEN {[AddAll(project.project_doc, c.packages) EXCEPT !.guardrails = c.guardrails]}
  ELSE IF c.cmd = "remove"
    THEN {[RemoveAll(project.project_doc, c.guardrails)
             EXCEPT !.packages = c.packages, !.guardrails = c.guardrails]}
  ELSE LET found == guardrails(files, project, 0)
       IN  IF found.errs # {}
             THEN {BodyResult(project.project_doc, c.packages, c.guardrails,
                              <<Event("guardrails", <<>>, FALSE)>>, err) :
                     err \in found.errs}
             ELSE {BodyResult(project.project_doc, c.packages, list,
                              <<Event("guardrails", <<>>, TRUE)>>, NoError) :
                     list \in Lists_of(found.set)}

\* resolve_guardrails_token: the token of the settings, or typer.Exit(1)
\* when there is none.
resolve_guardrails_token(token) ==
  IF token = None THEN [ret |-> None, err |-> "Exit"]
  ELSE [ret |-> token, err |-> NoError]

\* The command begins with the token check: when it raises, the command ends
\* before anything else is done.
Started(c) ==
  LET resolved == resolve_guardrails_token(c.token)
  IN  IF resolved.err = NoError THEN c
      ELSE Raised([c EXCEPT !.guardrails = <<>>], resolved.err)

\* uv-guard add PACKAGES
add(packages) ==
  /\ cli.status # "running"
  /\ cli' = Started(Command("add", packages, DefaultOptions, <<>>, cli.token, "running"))
  /\ UNCHANGED <<fs, mgr, atEntry, last, prev>>

\* uv-guard remove PACKAGES: the token is checked, then guardrails is set to
\* the hub URIs among the arguments.
remove(packages) ==
  /\ cli.status # "running"
  /\ cli' = Started(Command("remove", packages, DefaultOptions, HubUris(packages),
                            cli.token, "running"))
  /\ UNCHANGED <<fs, mgr, atEntry, last, prev>>

\* uv-guard sync OPTIONS
sync(options) ==
  /\ cli.status # "running"
  /\ cli' = Started(Command("sync", <<>>, options, <<>>, cli.token, "running"))
  /\ UNCHANGED <<fs, mgr, atEntry, last, prev>>

\* with ProjectManager(...) as project: the manager is built and entered, the
\* body runs, and __exit__ writes the document back unless the body raised
\* or the manager is read-only.
WithProject ==
  /\ Running("manifest")
  /\ LET project == CommandManager(cli)
         file == fs[project.path]
         built(ok) == [cli EXCEPT !.project = project,
                                   !.log = Append(@, Event("ProjectManager", <<>>, ok))]
     IN  IF InitError(file) # NoError
           THEN /\ cli' = Raised(built(FALSE), InitError(file))
                /\ UNCHANGED fs
         ELSE IF EnterError(file) # NoError
           THEN /\ cli' = Raised([built(TRUE) EXCEPT !.project.st = "failed"],
                                 EnterError(file))
                /\ UNCHANGED fs
         ELSE \E body \in Bodies(cli, [project EXCEPT !.project_doc = Some(Load(file))], fs) :
                LET writes == WritesBack(body.err # NoError, project.read_only)
                    left == [built(TRUE) EXCEPT
                               !.project = [project EXCEPT !.st = "exited",
                                                           !.project_doc = body.doc],
                               !.packages = body.packages,
                               !.guardrails = body.guardrails,
                               !.log = @ \o body.calls
                                         \o (IF writes THEN <<Event("write", <<>>, TRUE)>>
                                             ELSE <<>>)]
                IN  /\ cli' = IF body.err # NoError THEN Raised(left, body.err)
                              ELSE Advance(left)
                    /\ IF writes
                         THEN fs' = [fs EXCEPT ![project.path] = Dump(Get(body.doc))]
                         ELSE UNCHANGED fs
  /\ UNCHANGED <<mgr, atEntry, last, prev>>

\* What the command hands to uv: uv.add(["guardrails-ai"] + python_packages),
\* uv.remove(python_packages), uv.sync(*uv_args).
UvArgs(c) ==
  IF c.cmd = "add" THEN <<GuardrailsAi>> \o python_packages(c.packages)
  ELSE IF c.cmd = "remove" THEN python_packages(c.packages)
  ELSE uv_args(c.options)

\* uv.add, uv.remove, uv.sync: uv runs and returns, or call_uv raises
\* UvGuardException.
CallUv ==
  /\ Running("uv")
  /\ \E ok \in BOOLEAN :
       LET called == [cli EXCEPT !.log = Append(@, Event("uv", UvArgs(cli), ok))]
       IN  cli' = IF ok THEN Advance(called) ELSE Raised(called, "UvGuardException")
  /\ UNCHANGED <<fs, mgr, atEntry, last, prev>>

\* The list the loop over the guardrails goes through: in add the hub URIs
\* of packages as it is bound by then, in remove and sync the guardrails
\* variable.
HookList(c) == IF c.cmd = "add" THEN HubUris(c.packages) ELSE c.guardrails

\* guardrails_ai.install / guardrails_ai.uninstall
HookOf(cmd) == IF cmd = "remove" THEN "uninstall" ELSE "install"

\* One turn of the loop: the hook runs and returns, or raises
\* UvGuardException; an argument that is no string cannot be run at all
\* (subprocess raises an exception that is no UvGuardException).
CallHook ==
  /\ Running("hooks")
  /\ cli.i <= Len(HookList(cli))
  /\ \E ok \in BOOLEAN :
       LET guardrail == HookList(cli)[cli.i]
           called(returned) ==
             [cli EXCEPT !.log = Append(@, Event(HookOf(cli.cmd), <<guardrail>>, returned))]
       IN  cli' = IF guardrail = IntegerEntry THEN Raised(called(FALSE), "Exception")
                  ELSE IF ok THEN [called(TRUE) EXCEPT !.i = @ + 1]
                  ELSE Raised(called(FALSE), "UvGuardException")
  /\ UNCHANGED <<fs, mgr, atEntry, last, prev>>

\* The loop is through.
EndLoop ==
  /\ Running("hooks")
  /\ cli.i > Len(HookList(cli))
  /\ cli' = Advance(cli)
  /\ UNCHANGED <<fs, mgr, atEntry, last, prev>>

\* Commands run one after the other.
NextCli ==
  \/ \E packages \in Argvs : add(packages)
  \/ \E packages \in Argvs : remove(packages)
  \/ \E options \in SyncOptions : sync(options)
  \/ WithProject
  \/ CallUv
  \/ CallHook
  \/ EndLoop

SpecCli == InitCli /\ [][NextCli]_vars

----------------------------------------------------------------------------
\* Properties

HasTable(project_doc) == ProjectTableError(project_doc) = NoError

\* The guardrails list of a manager's document (it has a project table).
ListOf(project_doc) == local_guardrails(Get(project_doc))

\* The guardrails list a file declares; empty when there is none to read.
FileList(file) ==
  IF CanLoad(file) /\ HasTable(Some(Load(file)))
    THEN local_guardrails(Load(file))
    ELSE <<>>

UniqueIds(list) ==
  \A i, j \in 1..Len(list) : IdOf(list[i]) = IdOf(list[j]) => i = j

HasId(list, id) == \E i \in 1..Len(list) : IdOf(list[i]) = id

\* The position of the first entry of list that has the identifier.
FirstWithId(list, id) ==
  CHOOSE i \in 1..Len(list) :
    IdOf(list[i]) = id /\ \A j \in 1..(i - 1) : IdOf(list[j]) # id

Without(list, i) ==
  [k \in 1..(Len(list) - 1) |-> IF k < i THEN list[k] ELSE list[k + 1]]

\* The document of the manager that made the last call, before and after it.
Before == last.doc
After == mgr[last.m].project_doc

InSession(m) == mgr[m].st \in {"entered", "raising", "exited"}

\* C1: starting from a guardrails list with no two entries of the same
\* identifier, add_guardrail and remove_guardrail never produce a list (in
\* memory or written back) that holds two entries with the same identifier.
C1_UniqueIdentifiers ==
  \A m \in Managers :
    (InSession(m) /\ HasTable(mgr[m].project_doc) /\ UniqueIds(FileList(atEntry[m])))
      => /\ UniqueIds(ListOf(mgr[m].project_doc))
         /\ UniqueIds(FileList(fs[mgr[m].path]))

C1_Witness ==
  /\ last.op = "add" /\ HasTable(Before)
  /\ UniqueIds(FileList(atEntry[last.m]))
  /\ Len(ListOf(Before)) = 2
  /\ VersionOf(last.arg) # None
  /\ ListOf(After) # ListOf(Before)

\* C2: add_guardrail(uri), uri without a version and an entry with its
\* identifier present: the document is unchanged and the call returns the
\* existing entry, the first one with that identifier.
C2_UnversionedAddKeepsEntry ==
  (/\ last.op = "add" /\ HasTable(Before)
   /\ VersionOf(last.arg) = None
   /\ HasId(ListOf(Before), IdOf(last.arg)))
    => /\ last.err = NoError
       /\ After = Before
       /\ last.ret = ListOf(Before)[FirstWithId(ListOf(Before), IdOf(last.arg))]

C2_Witness ==
  /\ last.op = "add" /\ HasTable(Before)
  /\ VersionOf(last.arg) = None
  /\ HasId(ListOf(Before), IdOf(last.arg))
  /\ VersionOf(last.ret) # None
  /\ last.ret # last.arg

\* C3: add_guardrail(uri), uri with a version and an entry with its
\* identifier present: that entry becomes uri, in place; the length and all
\* other entries stay; the call returns uri.
C3_VersionedAddReplacesInPlace ==
  (/\ last.op = "add" /\ HasTable(Before)
   /\ VersionOf(last.arg) # None
   /\ HasId(ListOf(Before), IdOf(last.arg)))
    => LET i == FirstWithId(ListOf(Before), IdOf(last.arg))
       IN  /\ last.err = NoError
           /\ last.ret = last.arg
           /\ Len(ListOf(After)) = Len(ListOf(Before))
           /\ ListOf(After)[i] = last.arg
           /\ \A k \in 1..Len(ListOf(Before)) :
                k # i => ListOf(After)[k] = ListOf(Before)[k]

C3_Witness ==
  /\ last.op = "add" /\ HasTable(Before)
  /\ VersionOf(last.arg) # None
  /\ Len(ListOf(Before)) = 2
  /\ IdOf(ListOf(Before)[2]) = IdOf(last.arg)
  /\ IdOf(ListOf(Before)[1]) # IdOf(last.arg)
  /\ VersionOf(ListOf(Before)[2]) # None
  /\ ListOf(Before)[2] # last.arg

\* C4: add_guardrail(uri) with no entry of uri's identifier: the guardrails
\* key is present afterwards and holds the earlier entries followed by uri;
\* the call returns uri.
C4_AddAppends ==
  (/\ last.op = "add" /\ HasTable(Before)
   /\ ~HasId(ListOf(Before), IdOf(last.arg)))
    => /\ last.err = NoError
       /\ last.ret = last.arg
       /\ Get(Get(After).project).guardrails = Some(Append(ListOf(Before), last.arg))

C4_Witness ==
  /\ last.op = "add" /\ HasTable(Before)
  /\ Get(Get(Before).project).guardrails = None
  /\ ListOf(After) = <<last.arg>>

\* C5: add_guardrail(u) called twice in a row: the second call changes
\* nothing and returns what the first returned; on a list that was empty, the
\* two calls leave exactly one entry.
C5_AddIdempotent ==
  (/\ last.op = "add" /\ prev.op = "add"
   /\ last.m = prev.m /\ last.arg = prev.arg
   /\ prev.err = NoError)
    => /\ last.err = NoError
       /\ After = Before
       /\ last.ret = prev.ret
       /\ prev.n = 0 => Len(ListOf(After)) = 1

C5_Witness ==
  /\ last.op = "add" /\ prev.op = "add"
  /\ last.m = prev.m /\ last.arg = prev.arg
  /\ prev.err = NoError /\ prev.n = 0
  /\ VersionOf(last.arg) = None
  /\ ListOf(After) = <<last.arg>>

\* C6: remove_guardrail(uri) with an entry of uri's identifier present:
\* the first such entry is removed, whatever the versions; the other entries
\* stay, in order.
C6_RemoveFirstMatch ==
  (/\ last.op = "remove" /\ HasTable(Before)
   /\ HasId(ListOf(Before), IdOf(last.arg)))
    => /\ last.err = NoError
       /\ ListOf(After) =
            Without(ListOf(Before), FirstWithId(ListOf(Before), IdOf(last.arg)))

C6_Witness ==
  /\ last.op = "remove" /\ HasTable(Before)
  /\ Len(ListOf(Before)) = 2
  /\ IdOf(ListOf(Before)[2]) = IdOf(last.arg)
  /\ IdOf(ListOf(Before)[1]) # IdOf(last.arg)
  /\ VersionOf(ListOf(Before)[2]) # None
  /\ VersionOf(last.arg) # None
  /\ VersionOf(ListOf(Before)[2]) # VersionOf(last.arg)
  /\ Len(ListOf(After)) = 1

\* remove_guardrail(uri) with no entry of uri's identifier raises nothing
\* and leaves the list as it was.
RemoveAbsentIsNoOp ==
  (/\ last.op = "remove" /\ HasTable(Before)
   /\ ~HasId(ListOf(Before), IdOf(last.arg)))
    => /\ last.err = NoError
       /\ ListOf(After) = ListOf(Before)

\* The last two calls were remove_guardrail of the same URI by the same
\* manager, and the first of them removed an entry.
RemovedTwice ==
  /\ last.op = "remove" /\ prev.op = "remove"
  /\ last.m = prev.m /\ last.arg = prev.arg
  /\ prev.err = NoError /\ HasTable(Before)
  /\ Len(ListOf(Before)) = prev.n - 1

\* C7 as stated: removing an absent identifier is a no-op, and so is every
\* second remove of a URI after a remove that took an entry out.
C7_AsStated ==
  /\ RemoveAbsentIsNoOp
  /\ RemovedTwice => ListOf(After) = ListOf(Before)

\* C7: removing an absent identifier raises nothing and leaves the list as
\* it was; a second remove of a URI after a remove that took an entry out is
\* a no-op when the list started with no two entries of the same identifier.
C7_RemoveAbsentNoOp ==
  /\ RemoveAbsentIsNoOp
  /\ (RemovedTwice /\ UniqueIds(FileList(atEntry[last.m])))
       => ListOf(After) = ListOf(Before)

C7_Witness ==
  /\ RemovedTwice
  /\ UniqueIds(FileList(atEntry[last.m]))
  /\ Len(ListOf(Before)) = 1
  /\ ListOf(After) = ListOf(Before)

C9_ReadOnlyNeverWrites ==
  \A m \in Managers :
    (InSession(m) /\ mgr[m].read_only) => fs[mgr[m].path] = atEntry[m]

C9_Witness ==
  /\ last.op = "exit" /\ ~last.exc /\ mgr[last.m].read_only
  /\ HasTable(After)
  /\ Get(Get(After).project).description # None
  /\ ListOf(After) # FileList(atEntry[last.m])

\* C10: __exit__ of a manager that is not read-only with an exception
\* pending writes nothing: the file is the one __enter__ read.
C10_AbnormalExitWritesNothing ==
  (last.op = "exit" /\ last.exc /\ ~mgr[last.m].read_only)
    => fs[mgr[last.m].path] = atEntry[last.m]

C10_Witness ==
  /\ last.op = "exit" /\ last.exc /\ ~mgr[last.m].read_only
  /\ HasTable(After)
  /\ ListOf(After) # FileList(atEntry[last.m])

\* C11: ProjectManager(path) raises UvGuardException exactly when the path
\* does not exist and parses nothing: on a file that exists, malformed or
\* not, it succeeds with no document loaded, and a malformed file fails only
\* in __enter__.
C11_InitChecksExistenceOnly ==
  /\ last.op = "init"
       => /\ last.err = "UvGuardException" <=> ~fs[mgr[last.m].path].exists
          /\ last.err \in {NoError, "UvGuardException"}
          /\ last.err = NoError <=> mgr[last.m].st = "constructed"
          /\ mgr[last.m].project_doc = None
  /\ \A m \in Managers :
       /\ mgr[m].st = "constructed" => mgr[m].project_doc = None
       /\ mgr[m].st = "failed" => fs[mgr[m].path].exists

C11_Witness ==
  /\ last.op = "init" /\ last.err = NoError
  /\ fs[mgr[last.m].path] = GarbageFile
  /\ mgr[last.m].st = "constructed"

\* C12: __enter__ on a file that is not well-formed raises UvGuardException;
\* a session is entered only on a well-formed file, with the document the file
\* holds, and after the failure the manager holds no document and the file is
\* as it was.
C12_EnterFailsOnMalformed ==
  /\ last.op = "enter"
       => /\ last.err = "UvGuardException" <=> ~CanLoad(fs[mgr[last.m].path])
          /\ last.err = "UvGuardException" <=> mgr[last.m].st = "failed"
          /\ last.err = NoError <=> mgr[last.m].st = "entered"
  /\ \A m \in Managers :
       /\ mgr[m].st = "failed"
            => mgr[m].project_doc = None /\ fs[mgr[m].path] = GarbageFile
       /\ InSession(m) => CanLoad(atEntry[m])

C12_Witness ==
  /\ last.op = "enter" /\ last.err = "UvGuardException"
  /\ mgr[last.m].st = "failed"
  /\ fs[mgr[last.m].path] = GarbageFile

----------------------------------------------------------------------------
\* Properties of the workspace

\* The calls that read or change the guardrails.
GuardrailCalls == {"local_guardrails", "guardrails", "add", "remove", "should_include_self"}

\* The document of the manifest at dir, as the manager self or a member
\* manager opened now would hold it.
DocAt(self, dir) == IF dir = self.path THEN Get(self.project_doc) ELSE fs[dir].doc

\* The manifest at dir can be traversed: it parses and has a project table.
Sound(self, dir) ==
  /\ dir = self.path \/ (fs[dir].exists /\ fs[dir].wellFormed)
  /\ DocAt(self, dir).project # None

\* The manifests that the member patterns of the manifest at dir name.
MembersOf(self, dir) ==
  LET patterns == DocAt(self, dir).members
  IN  {d \in UNION {Glob({dir}, patterns[i]) : i \in 1..Len(patterns)} :
         d # dir /\ fs[d].exists}

\* The manifests reachable from a set of manifests in at most n steps through
\* member patterns; what lies below a manifest that cannot be traversed is
\* not reached.
RECURSIVE ReachedIn(_, _, _)
ReachedIn(self, nodes, n) ==
  IF n = 0 THEN nodes
  ELSE ReachedIn(self,
                 nodes \cup UNION {MembersOf(self, d) : d \in {e \in nodes : Sound(self, e)}},
                 n - 1)

\* The nodes of the workspace of a loaded manager, the manager's own manifest
\* included.
Reachable(self) == ReachedIn(self, {self.path}, Cardinality(Dirs))

\* The manager of the last call, as it was when the call was made.
Caller == [mgr[last.m] EXCEPT !.project_doc = last.doc]

\* C13: on a loaded manifest that has no [project] table, local_guardrails,
\* guardrails, add_guardrail, remove_guardrail and should_include_self all
\* raise UvGuardException: none of them returns a value, an empty list least
\* of all, and the document stays as it was.  guardrails raises it as well
\* when a member manifest reached by the aggregation parses but has no
\* [project] table.
C13_MissingProjectFails ==
  (last.op \in GuardrailCalls /\ last.doc # None)
    => /\ Get(last.doc).project = None
            => /\ last.err = "UvGuardException"
               /\ last.got = NoValue
               /\ After = Before
       /\ (/\ last.op = "guardrails"
           /\ \E d \in Reachable(Caller) :
                d # Caller.path /\ CanLoad(fs[d]) /\ Load(fs[d]).project = None)
            => /\ last.err = "UvGuardException"
               /\ last.got = NoValue

\* guardrails was asked of a root that has a project table, and package a,
\* a member, has none.
C13_Witness ==
  /\ last.op = "guardrails" /\ last.err = "UvGuardException"
  /\ last.doc # None /\ Get(last.doc).project # None
  /\ Caller.path = RootPath
  /\ CanLoad(fs[PkgA]) /\ Load(fs[PkgA]).project = None

\* The accessors of a manager.
Accessors ==
  {"local_guardrails", "guardrails", "add", "remove", "project_name", "should_include_self"}

\* C14: before the session is entered, local_guardrails, guardrails,
\* add_guardrail, remove_guardrail and project_name (and should_include_self)
\* raise ValueError, which is not the UvGuardException of a file that is
\* missing, does not parse or lacks [project]; they return nothing and load
\* nothing.  No accessor raises ValueError on a loaded document.
C14_NotLoadedFails ==
  last.op \in Accessors
    => /\ last.doc = None
            => /\ last.err = "ValueError"
               /\ last.err # "UvGuardException"
               /\ last.got = NoValue /\ last.ret = <<>>
               /\ mgr[last.m].st = "constructed"
               /\ After = None
       /\ last.err = "ValueError" => last.doc = None

\* add_guardrail was called on a manager that was built and not entered.
C14_Witness ==
  /\ last.op = "add" /\ last.err = "ValueError"
  /\ last.doc = None
  /\ mgr[last.m].st = "constructed"

\* C15: local_guardrails returns the guardrails array as it stands, entry by
\* entry and in order, returns the empty sequence when the key is absent,
\* and raises when the key holds a value that is no array of strings.
C15_AsStated ==
  (last.op = "local_guardrails" /\ last.doc # None /\ Get(last.doc).project # None)
    => LET value == Get(Get(last.doc).project).guardrails
       IN  /\ value = None => (last.err = NoError /\ last.got = <<>>)
           /\ (value # None /\ IsArray(value))
                => (last.err = NoError /\ last.got = Get(value))
           /\ (value # None /\ ~IsArray(value)) => last.err # NoError

\* should_include_self returned, on a node that has a project table.
AskedToInclude == last.op = "should_include_self" /\ last.err = NoError

\* The name the node of the last call declares; none when it declares none.
DeclaredName == Get(Get(last.doc).project).name

\* C16, as stated: should_include_self is false for every node whose
\* declared name is in exclude_packages, root or member, whatever the other
\* filters are.
C16_AsStated ==
  (AskedToInclude /\ DeclaredName # None /\ Get(DeclaredName) \in Caller.exclude_packages)
    => last.got = FALSE

\* C16: should_include_self is false for every node whose declared name is
\* not empty and is in exclude_packages, root or member, whatever
\* include_all, include_packages and include_project are.
C16_ExclusionWins ==
  (/\ AskedToInclude
   /\ DeclaredName # None /\ Get(DeclaredName) # EmptyName
   /\ Get(DeclaredName) \in Caller.exclude_packages)
    => last.got = FALSE

\* The root is excluded by name while include_project and include_all are set.
C16_Witness ==
  /\ AskedToInclude /\ last.got = FALSE
  /\ Caller.is_root /\ Caller.include_project /\ Caller.include_all
  /\ DeclaredName = Some(RootName) /\ RootName \in Caller.exclude_packages

\* C17, as stated: on a node whose name is not in exclude_packages,
\* should_include_self is include_project on the root and
\* include_all OR (name in include_packages) on a member.
C17_AsStated ==
  (AskedToInclude /\ ~(DeclaredName # None /\ Get(DeclaredName) \in Caller.exclude_packages))
    => last.got = IF Caller.is_root THEN Caller.include_project
                  ELSE \/ Caller.include_all
                       \/ (DeclaredName # None /\ Get(DeclaredName) \in Caller.include_packages)

\* A name that the filters can match: declared and not empty.
Named == DeclaredName # None /\ Get(DeclaredName) # EmptyName

\* C17: on a node that is unnamed or whose name is not in exclude_packages,
\* should_include_self is include_project on the root, whatever include_all
\* and include_packages are, and include_all OR (the node is named and its
\* name is in include_packages) on a member, whatever include_project is.
C17_RootByFlagMemberByFilter ==
  (AskedToInclude /\ ~(Named /\ Get(DeclaredName) \in Caller.exclude_packages))
    => last.got = IF Caller.is_root THEN Caller.include_project
                  ELSE \/ Caller.include_all
                       \/ (Named /\ Get(DeclaredName) \in Caller.include_packages)

\* A member is included by name alone: include_all and include_project are
\* both off.
C17_Witness ==
  /\ AskedToInclude /\ last.got = TRUE
  /\ ~Caller.is_root /\ ~Caller.include_all /\ ~Caller.include_project
  /\ DeclaredName = Some(NameA) /\ NameA \in Caller.include_packages

\* guardrails was asked of a loaded manager.
Aggregated == last.op = "guardrails" /\ last.doc # None

\* The node at dir as the aggregation asked by the caller sees it: the caller
\* itself, or a member with the caller's filters.
Node(dir) ==
  IF dir = Caller.path THEN Caller
  ELSE Manager("entered", dir, TRUE, Some(fs[dir].doc), FiltersOf(Caller), FALSE)

\* The reachable nodes that pass the filters.
IncludedNodes == {d \in Reachable(Caller) : should_include_self(Node(d))}

\* The URIs that a set of nodes declare.
DeclaredBy(nodes) == UNION {Range(local_guardrails(DocAt(Caller, d))) : d \in nodes}

\* C18: in a workspace tree without cycles and under every filter
\* configuration, guardrails returns exactly when every reachable manifest
\* parses and has a project table, and then it returns the union of
\* local_guardrails over the nodes reachable through member patterns, the
\* caller included, for which should_include_self is true.  Reachability
\* does not depend on inclusion: the members of a node that is not included
\* are traversed.
C18_AggregateIsUnionOverIncluded ==
  Aggregated
    => /\ last.err = NoError <=> \A d \in Reachable(Caller) : Sound(Caller, d)
       /\ last.err = NoError => last.got = DeclaredBy(IncludedNodes)

\* Package a is not included and package c below it is: the aggregate of the
\* root holds what c declares and not what a declares.
C18_Witness ==
  /\ Aggregated /\ last.err = NoError
  /\ Caller.path = RootPath
  /\ PkgC \in IncludedNodes /\ PkgA \in Reachable(Caller) \ IncludedNodes
  /\ UriB1 \in last.got /\ UriA1 \notin last.got

\* guardrails was asked of a loaded root and returned.
RootAggregated == Aggregated /\ Caller.is_root /\ last.err = NoError

\* What the caller's own manifest declares.
OwnGuardrails == Range(local_guardrails(Get(last.doc)))

\* The reachable nodes other than the caller.
Members == Reachable(Caller) \ {Caller.path}

\* C19: with include_all off, no include_packages, no exclude_packages and
\* include_project on, the guardrails that a root returns are exactly its own
\* local guardrails, whatever its members declare.
C19_DefaultIsRootOnly ==
  (/\ RootAggregated
   /\ ~Caller.include_all /\ Caller.include_project
   /\ Caller.include_packages = {} /\ Caller.exclude_packages = {})
    => last.got = OwnGuardrails

\* The root declares one guardrail, packages a and b declare others, and a
\* manager with the default filters returns the root's one only.
C19_Witness ==
  /\ RootAggregated
  /\ FiltersOf(Caller) = DefaultFilters
  /\ {PkgA, PkgB} \subseteq Members
  /\ DeclaredBy({PkgA, PkgB}) = {UriA1, UriB}
  /\ last.got = {UriA}

\* The name that the member at d declares; none when it declares none.
NameOf(d) == Get(DocAt(Caller, d).project).name

\* C20, as stated: with include_project off the result of the root is empty
\* when include_all is off and include_packages is empty, and with
\* include_all on it is the union of the local guardrails of the members
\* whose name is not in exclude_packages.
C20_AsStated ==
  (RootAggregated /\ ~Caller.include_project)
    => /\ (~Caller.include_all /\ Caller.include_packages = {}) => last.got = {}
       /\ Caller.include_all
            => last.got =
                 DeclaredBy({d \in Members :
                               ~(NameOf(d) # None
                                 /\ Get(NameOf(d)) \in Caller.exclude_packages)})

\* A member that declares a name, not empty, that is in exclude_packages.
ExcludedMember(d) ==
  /\ NameOf(d) # None /\ Get(NameOf(d)) # EmptyName
  /\ Get(NameOf(d)) \in Caller.exclude_packages

\* C20: with include_project off the root's own guardrails are left out of
\* what it returns: the result is empty when include_all is off and
\* include_packages is empty, and with include_all on it is the union of the
\* local guardrails of the members that declare no name, an empty name or a
\* name that is not in exclude_packages.
C20_NoProjectLeavesRootOut ==
  (RootAggregated /\ ~Caller.include_project)
    => /\ (~Caller.include_all /\ Caller.include_packages = {}) => last.got = {}
       /\ Caller.include_all
            => last.got = DeclaredBy({d \in Members : ~ExcludedMember(d)})

\* include_project is off and include_all on: the root declares a guardrail
\* that the result lacks, package a is excluded, package b is returned.
C20_Witness ==
  /\ RootAggregated
  /\ ~Caller.include_project /\ Caller.include_all
  /\ UriA \in OwnGuardrails /\ UriA \notin last.got
  /\ PkgA \in Members /\ ExcludedMember(PkgA)
  /\ last.got = {UriB}

\* The node d lists the URI u.
Lists(d, u) == u \in DeclaredBy({d})

\* C21: what guardrails returns holds every URI that an included node lists,
\* each once, whatever other URI of the same identifier is listed: the result
\* has as many entries as the included nodes list distinct URI strings, two
\* URIs that differ in the version only are both in it, and a URI that two
\* nodes list is one entry.
C21_DedupByFullUri ==
  (Aggregated /\ last.err = NoError)
    => /\ \A d \in IncludedNodes : \A u \in DeclaredBy({d}) : u \in last.got
       /\ \A u \in last.got, v \in last.got :
            (IdOf(u) = IdOf(v) /\ u # v) => \E d, e \in IncludedNodes : Lists(d, u) /\ Lists(e, v)
       /\ Cardinality(last.got) = Cardinality(DeclaredBy(IncludedNodes))

\* The root and package c both list hub://a and package a lists hub://a:1,
\* all three are included: both URIs are returned, among four entries.
C21_Witness ==
  /\ Aggregated /\ last.err = NoError
  /\ {RootPath, PkgA, PkgC} \subseteq IncludedNodes
  /\ Lists(RootPath, UriA) /\ Lists(PkgC, UriA) /\ Lists(PkgA, UriA1)
  /\ {UriA, UriA1} \subseteq last.got
  /\ Cardinality(last.got) = 4

\* The member managers that the last guardrails call built, each with the
\* directory of the node that built it.
Opened == guardrails(fs, Caller, 0).opened

\* C22: every manager that guardrails builds, at every depth, is read-only,
\* has _is_root off and has the include_all, include_packages,
\* exclude_packages and include_project of the manager that was asked,
\* whether that manager is read-only or not.
C22_ChildrenReadOnlySameFilters ==
  Aggregated
    => \A child \in Opened :
         /\ child.manager.read_only
         /\ ~child.manager.is_root
         /\ FiltersOf(child.manager) = FiltersOf(Caller)

\* A root that is not read-only was asked, and package c was opened two
\* levels down, by package a, read-only.
C22_Witness ==
  /\ Aggregated /\ last.err = NoError
  /\ Caller.path = RootPath /\ ~Caller.read_only
  /\ \E child \in Opened :
       /\ child.by = PkgA /\ child.manager.path = PkgC
       /\ child.manager.read_only /\ ~child.manager.is_root

----------------------------------------------------------------------------
\* Properties of workspaces with patterns that lead back

\* A pattern of the manifest at dir matches the directory of that manifest.
MatchesItself(dir) ==
  LET patterns == DocAt(Caller, dir).members
  IN  \E i \in 1..Len(patterns) : dir \in Glob({dir}, patterns[i])

\* The managers that the last guardrails call built on the manifest at dir.
OpenedOn(dir) == {child \in Opened : child.manager.path = dir}

\* C23: a match whose manifest is the manifest of the node that is looking
\* is skipped: no manager is built by a node on its own manifest, so that a
\* node whose patterns match its own directory is opened by the node above it
\* only, and what it lists is in the result as one entry for each URI.
C23_SelfMatchSkipped ==
  Aggregated
    => /\ \A child \in Opened : child.manager.path # child.by
       /\ (last.err = NoError /\ MatchesItself(Caller.path))
            => /\ OpenedOn(Caller.path) = {}
               /\ last.got = DeclaredBy(IncludedNodes)

\* The root and package a both have a pattern that matches their own
\* directory; the root was not opened, package a was opened by the root only.
C23_Witness ==
  /\ Aggregated /\ last.err = NoError
  /\ Caller.path = RootPath
  /\ MatchesItself(RootPath) /\ MatchesItself(PkgA)
  /\ OpenedOn(RootPath) = {}
  /\ \A child \in OpenedOn(PkgA) : child.by = RootPath
  /\ Cardinality(OpenedOn(PkgA)) = 1

\* C24, as stated: at no depth of the traversal is the manifest of the root
\* that was asked opened as a member.
C24_AsStated ==
  (Aggregated /\ Caller.is_root) => OpenedOn(Caller.path) = {}

\* The manifest at dir is reached again from its own members.
OnCycle(dir) == dir \in ReachedIn(Caller, MembersOf(Caller, dir), Cardinality(Dirs))

\* The member graph below the caller has a cycle; a node that matches its own
\* directory does not make one.
Cyclic == \E d \in Reachable(Caller) : OnCycle(d)

\* C25: in a workspace whose member graph has no cycle, nodes that match
\* their own directory aside, and whose manifests all parse and have a
\* project table, guardrails returns, and returns the union over the
\* included nodes: the recursion does not overflow.
C25_Terminates ==
  (Aggregated /\ ~Cyclic /\ \A d \in Reachable(Caller) : Sound(Caller, d))
    => /\ last.err = NoError
       /\ last.got = DeclaredBy(IncludedNodes)

\* No cycle, the root and package a match their own directory, package c is
\* two levels down, and the call returned.
C25_Witness ==
  /\ Aggregated /\ ~Cyclic
  /\ MatchesItself(RootPath) /\ MatchesItself(PkgA)
  /\ PkgC \in Reachable(Caller)
  /\ last.err = NoError /\ last.got # {}

----------------------------------------------------------------------------
\* Properties of reads that follow a change in memory

\* The step is a guardrails read that returns, made by the manager right
\* after its call of add_guardrail or remove_guardrail returned.
ReadsRightAfter(op) ==
  /\ last.op = op /\ last.err = NoError
  /\ last'.op = "guardrails" /\ last'.m = last.m /\ last'.err = NoError

\* What the members that pass the filters declare, the caller left out.
DeclaredByMembers == DeclaredBy(IncludedNodes \ {Caller.path})

\* The entries of the list before the remove that have the identifier of the
\* URI removed.
RemovedUris ==
  {uri \in Range(ListOf(last.doc)) : IdOf(uri) = IdOf(last.arg)}

AddedIsRead ==
  (ReadsRightAfter("add") /\ Caller'.is_root /\ should_include_self(Caller'))
    => last.ret \in last'.got

\* C26 as stated: a read right after add_guardrail returned r on an included
\* root holds r, and a read right after remove_guardrail holds the removed
\* URI only if an included member declares it.
C26_AsStated ==
  [][/\ AddedIsRead
     /\ ReadsRightAfter("remove")
          => \A uri \in RemovedUris : uri \in last'.got => uri \in DeclaredByMembers']_vars

\* C26: guardrails is computed from the document in memory at every read: a
\* read right after add_guardrail returned r on an included root holds r,
\* and a read right after remove_guardrail on a list with no two entries of
\* one identifier holds the removed URI, and the URI asked, only if an
\* included member declares it.
C26_ReadsSeeMemory ==
  [][/\ AddedIsRead
     /\ (ReadsRightAfter("remove") /\ UniqueIds(ListOf(last.doc)))
          => \A uri \in RemovedUris \cup {last.arg} :
               uri \in last'.got => uri \in DeclaredByMembers']_vars

\* A read returned hub://b, which neither the file of the root nor a member
\* declares, and not hub://a, which the file of the root declares: hub://b
\* was added and hub://a removed in memory.
C26_Witness ==
  /\ Aggregated /\ last.err = NoError
  /\ Caller.is_root /\ should_include_self(Caller)
  /\ UniqueIds(FileList(fs[RootPath]))
  /\ UriB \in last.got /\ UriB \notin Range(FileList(fs[RootPath]))
  /\ UriB \notin DeclaredByMembers
  /\ UriA \notin last.got /\ UriA \in Range(FileList(fs[RootPath]))

----------------------------------------------------------------------------
\* Properties of the commands

\* The command ran, or runs.
Ran(cmd) == cli.cmd = cmd /\ cli.status # "idle"

Kinds(log) == [k \in 1..Len(log) |-> log[k].kind]

Repeat(x, n) == [k \in 1..n |-> x]

IsPrefix(s, t) == Len(s) <= Len(t) /\ \A k \in 1..Len(s) : s[k] = t[k]

\* What the calls of one kind were made with, in the order of the calls.
ArgsTo(kind) ==
  LET calls == SelectSeq(cli.log, LAMBDA e : e.kind = kind)
  IN  [k \in 1..Len(calls) |-> calls[k].args[1]]

\* Every call but the last one returned: a call that raises ends the command.
OkBeforeLast == \A k \in 1..(Len(cli.log) - 1) : cli.log[k].ok

\* The manifest of the working directory holds the document of the manager
\* the command used.
WrittenBack == fs[RootPath] = Dump(Get(cli.project.project_doc))

\* C27: remove calls the uninstall hook for every hub URI of its arguments,
\* then uv remove with the resolved names of all its arguments, then builds
\* the manager and calls remove_guardrail for every hub URI, and writes the
\* manifest back; each call is made only when every call before it returned,
\* so the manifest is not opened unless uv remove returned.
C27_RemoveOrder ==
  Ran("remove")
    => LET uris == HubUris(cli.argv)
           n == Len(uris)
       IN  /\ IsPrefix(Kinds(cli.log),
                       Repeat("uninstall", n) \o <<"uv", "ProjectManager">>
                         \o Repeat("remove_guardrail", n) \o <<"write">>)
           /\ OkBeforeLast
           /\ IsPrefix(ArgsTo("uninstall"), uris)
           /\ IsPrefix(ArgsTo("remove_guardrail"), uris)
           /\ \A k \in 1..Len(cli.log) :
                cli.log[k].kind = "uv"
                  => cli.log[k].args = [j \in 1..Len(cli.argv) |->
                                          resolve_python_package(cli.argv[j])]
           /\ cli.status = "done" => (Len(cli.log) = 2 * n + 3 /\ WrittenBack)

\* remove hub://a requests ran to its end: uv got the package of hub://a
\* and requests, and the manifest, written back, lists no guardrail.
C27_Witness ==
  /\ Ran("remove") /\ cli.status = "done"
  /\ cli.argv = <<UriA, Requests>>
  /\ Kinds(cli.log) = <<"uninstall", "uv", "ProjectManager", "remove_guardrail", "write">>
  /\ cli.log[2].args = <<get_normalized_package_name(<<"a">>), Requests>>
  /\ FileList(fs[RootPath]) = <<>>

\* C28: add builds the manager, calls add_guardrail for every hub URI of its
\* arguments and writes the manifest back, then calls uv add, then the
\* install hook once for each of them; each call is made only when every
\* call before it returned, so no hook runs unless uv add returned; what is
\* no hub URI reaches neither add_guardrail nor the hook.
C28_AddOrder ==
  Ran("add")
    => LET uris == HubUris(cli.argv)
           n == Len(uris)
       IN  /\ IsPrefix(Kinds(cli.log),
                       <<"ProjectManager">> \o Repeat("add_guardrail", n)
                         \o <<"write", "uv">> \o Repeat("install", n))
           /\ OkBeforeLast
           /\ IsPrefix(ArgsTo("add_guardrail"), uris)
           /\ \A k \in 1..Len(cli.log) :
                cli.log[k].kind \in {"add_guardrail", "install"}
                  => is_guardrails_hub_uri(cli.log[k].args[1])
           /\ (\E k \in 1..Len(cli.log) : cli.log[k].kind = "write") => WrittenBack
           /\ cli.status = "done" => Len(cli.log) = 2 * n + 3

\* add requests hub://a:1 ran to its end: the manifest lists hub://a:1, uv
\* got guardrails-ai, requests and the package of hub://a:1, and the hook ran
\* once.
C28_Witness ==
  /\ Ran("add") /\ cli.status = "done"
  /\ cli.argv = <<Requests, UriA1>>
  /\ Kinds(cli.log) = <<"ProjectManager", "add_guardrail", "write", "uv", "install">>
  /\ cli.log[4].args = <<GuardrailsAi, Requests, resolve_python_package(UriA1)>>
  /\ UriA1 \in Range(FileList(fs[RootPath]))

SyncAggregate ==
  guardrails(fs,
             Manager("entered", RootPath, TRUE, Some(Load(fs[RootPath])),
                     Filters(cli.options.all_packages,
                             IF cli.options.package = None THEN {}
                             ELSE Range(cli.options.package),
                             IF cli.options.no_install_package = None THEN {}
                             ELSE Range(cli.options.no_install_package),
                             ~cli.options.no_install_project),
                     TRUE),
             0).set

SyncCalls ==
  Ran("sync")
    => /\ IsPrefix(Kinds(cli.log),
                   <<"ProjectManager", "guardrails", "uv">>
                     \o Repeat("install", Len(cli.guardrails)))
       /\ OkBeforeLast
       /\ cli.log # <<>>
            => /\ cli.project.read_only /\ cli.project.is_root
               /\ cli.project.path = RootPath
               /\ cli.project.include_all = cli.options.all_packages
               /\ cli.project.include_packages =
                    (IF cli.options.package = None THEN {}
                     ELSE Range(cli.options.package))
               /\ cli.project.exclude_packages =
                    (IF cli.options.no_install_package = None THEN {}
                     ELSE Range(cli.options.no_install_package))
               /\ cli.project.include_project = ~cli.options.no_install_project
       /\ (Len(cli.log) >= 2 /\ cli.log[2].ok)
            => /\ Range(cli.guardrails) = SyncAggregate
               /\ Len(cli.guardrails) = Cardinality(SyncAggregate)
       /\ IsPrefix(ArgsTo("install"), cli.guardrails)
       /\ cli.status = "done" => Len(cli.log) = 3 + Len(cli.guardrails)

\* C30: sync builds a read-only manager on the root manifest with the
\* filters its options stand for, reads guardrails, then calls uv sync, then
\* the install hook once for each guardrail read; each call is made only
\* when every call before it returned, so no hook runs if uv sync fails; and
\* no step of sync changes a manifest.
C30_SyncOrder ==
  /\ []SyncCalls
  /\ [][cli'.cmd = "sync" => fs' = fs]_vars

\* sync --all-packages --no-install-project --no-install-package b ran to its
\* end: the hook ran for hub://a:1, hub://a and hub://b:1, which packages a
\* and c declare, and for nothing else.
C30_Witness ==
  /\ Ran("sync") /\ cli.status = "done"
  /\ cli.options.all_packages /\ cli.options.no_install_project
  /\ cli.options.no_install_package = <<NameB>>
  /\ Range(ArgsTo("install")) = {UriA1, UriA, UriB1}
  /\ Len(cli.log) = 6

\* C31 as stated: resolve_guardrails_token returns the token that is set, and
\* a command run without a token ends with UvGuardException raised by it.
C31_AsStated ==
  cli.status # "idle"
    => LET resolved == resolve_guardrails_token(cli.token)
       IN  /\ cli.token # None => (resolved.err = NoError /\ resolved.ret = cli.token)
           /\ cli.token = None => (resolved.err = "UvGuardException"
                                   /\ cli.exc = "UvGuardException")

\* C32: when a manifest below the caller is reached again from its own
\* members (package a names the root, two directories up, or package c names
\* package a, which listed it), nothing stops the recursion: the read of
\* guardrails returns no result, it ends when the interpreter's recursion
\* limit is hit.
C32_CycleNeverReturns ==
  (Aggregated /\ Cyclic /\ \A d \in Reachable(Caller) : Sound(Caller, d))
    => /\ last.err = "RecursionError"
       /\ last.got = NoValue

\* Package a names the root, its grandparent, and the read on the root was
\* cut off.
C32_Witness ==
  /\ Aggregated /\ Caller.path = RootPath
  /\ OnCycle(RootPath) /\ ~OnCycle(PkgC)
  /\ RootPath \in MembersOf(Caller, PkgA)
  /\ last.err = "RecursionError"

----------------------------------------------------------------------------
\* Properties of two sessions on one manifest

\* Both sessions are over and the last call was the __exit__ of the second
\* one to leave, no exception pending.
BothExited ==
  /\ \A m \in Managers : mgr[m].st = "exited"
  /\ last.op = "exit" /\ ~last.exc

\* The session that left first.
First == CHOOSE m \in Managers : m # last.m

\* The sessions overlapped: both loaded the same file although the one that
\* left first had changed the document it wrote.  (Had the second session
\* loaded after the first had left, it would have loaded what the first
\* wrote.)
Overlapped ==
  /\ atEntry[First] = atEntry[last.m]
  /\ Dump(Get(mgr[First].project_doc)) # atEntry[First]

----------------------------------------------------------------------------
\* What a read of guardrails leaves behind

\* The manifests that the managers built during the aggregation write when
\* they are left: __exit__ runs for every member that was entered.
WrittenByMembers ==
  {child.manager.path : child \in {c \in Opened : /\ c.manager.st # "failed"
                                                  /\ WritesBack(FALSE, c.manager.read_only)}}

\* C34: a read of guardrails leaves the document of the manager and every
\* file as they were, no member opened on the way writes its manifest when
\* it is left, whether the root is read-only or not, and a step of a session
\* changes no file but the manifest of its own manager.
C34_ReadsChangeNothing ==
  /\ [](Aggregated => WrittenByMembers = {})
  /\ [][last'.op = "guardrails"
          => /\ fs' = fs
             /\ mgr'[last'.m].project_doc = mgr[last'.m].project_doc]_vars
  /\ [][\A d \in Dirs : fs'[d] # fs[d] => (last'.op = "exit" /\ d = mgr[last'.m].path)]_vars

\* A root that can write, with hub://b added in memory and not yet on disk,
\* read its guardrails through its members, packages a, b and c.
C34_Witness ==
  /\ Aggregated /\ last.err = NoError
  /\ ~Caller.read_only
  /\ {child.manager.path : child \in Opened} = {PkgA, PkgB, PkgC}
  /\ UriB \in Range(ListOf(last.doc))
  /\ UriB \notin Range(FileList(fs[RootPath]))
  /\ mgr[last.m].project_doc = last.doc

----------------------------------------------------------------------------
\* What a remove that matches nothing leaves behind

\* C35 as stated: remove_guardrail on an identifier that no entry has leaves
\* the document of the manager as it was, a project table without a
\* guardrails key included.
C35_AsStated ==
  (/\ last.op = "remove" /\ last.err = NoError
   /\ ~HasId(ListOf(Before), IdOf(last.arg)))
    => After = Before

----------------------------------------------------------------------------
\* A failure in the middle of add

\* A call of add_guardrail made by the add command raised.
AddFailed ==
  /\ Ran("add")
  /\ \E k \in 1..Len(cli.log) : cli.log[k].kind = "add_guardrail" /\ ~cli.log[k].ok

\* C36: when add_guardrail raises for a package of an add command, the with
\* block is left with the exception pending and the command ends there: no
\* file is changed by that step, the changes made in memory for the packages
\* before the failing one included, and neither uv nor a hook is called.
C36_AddAllOrNothing ==
  /\ [](AddFailed
          => /\ cli.status \in {"exit1", "crashed"} /\ cli.exc # NoError
             /\ cli.project.st = "exited"
             /\ \A k \in 1..Len(cli.log) :
                  cli.log[k].kind \notin {"write", "uv", "install"})
  /\ [][AddFailed' => fs' = fs]_vars

\* add hub://a:1 hub://b on a manifest that lists hub://a and an integer: the
\* first call put hub://a:1 in the place of hub://a in memory, the second
\* raised, and the file still lists hub://a.
C36_Witness ==
  /\ AddFailed
  /\ cli.argv = <<UriA1, UriB>>
  /\ Kinds(cli.log) = <<"ProjectManager", "add_guardrail", "add_guardrail">>
  /\ cli.log[2].ok
  /\ ListOf(cli.project.project_doc) = <<UriA1, IntegerEntry>>
  /\ FileList(fs[RootPath]) = <<UriA, IntegerEntry>>

----------------------------------------------------------------------------
\* sync --no-install-workspace

\* C37 as stated: a sync command given --no-install-workspace calls the
\* install hook for no guardrail.
C37_AsStated ==
  (Ran("sync") /\ cli.options.no_install_workspace) => ArgsTo("install") = <<>>

====
